---- MODULE Spec2Model ----
(***************************************************************************)
(* The account controller of openedx/core/djangoapps/user_api/accounts/    *)
(* views.py: the read handlers (list, retrieve), the merge-patch update,   *)
(* administrative deactivation and the two retirement endpoints, over a    *)
(* committed store and the working copy of an open transaction.            *)
(***************************************************************************)
EXTENDS Integers, Sequences, FiniteSets, TLC

VARIABLES
    db,         \* the committed store: what any other request can read
    tx,         \* the store as the open transaction sees it (db when none is open)
    req,        \* the request being handled: parameters, position, response
    before,     \* the committed store when the request being handled arrived
    query,      \* username parsing on its own: the raw query parameter ...
    resolved,   \* ... and the usernames the list handler resolves it to
    calls,      \* back-to-back deactivation: the calls completed so far
    seen        \* the rows concurrent readers have read from the committed store

vars == <<db, tx, req, before, query, resolved, calls, seen>>

----------------------------------------------------------------------------
(* Bounds *)

MaxLen == 5        \* longest username query string
MaxRetire == 2     \* most retirements applied to one email address

----------------------------------------------------------------------------
(* Status codes (rest_framework.status) *)

HTTP_200_OK == 200
HTTP_204_NO_CONTENT == 204
HTTP_400_BAD_REQUEST == 400
HTTP_403_FORBIDDEN == 403
HTTP_404_NOT_FOUND == 404
HTTP_500_INTERNAL_SERVER_ERROR == 500
NoResponse == 0    \* the handler raised: no Response object was returned

----------------------------------------------------------------------------
(* Strings are sequences of characters; usernames are strings. *)

Chars == {"a", "b", ",", " "}

StringsUpTo(n) == UNION {[1..k -> Chars] : k \in 0..n}

Alice == <<"a">>
Bob == <<"b">>
Ghost == <<"a", "b">>          \* a username no account has
Existing == {Alice, Bob}
Usernames == {Alice, Bob, Ghost}
Targets == {Alice, Ghost}      \* the usernames the writing requests name

Fields == {"goals", "name"}
FieldValues == {"v0", "v1"}
Orgs == {"org1", "org2"}

----------------------------------------------------------------------------
(* str.strip(',') and str.split(',') as Python computes them *)

RECURSIVE LStripCommas(_)
LStripCommas(s) ==
    IF s # <<>> /\ Head(s) = "," THEN LStripCommas(Tail(s)) ELSE s

RECURSIVE RStripCommas(_)
RStripCommas(s) ==
    IF s # <<>> /\ s[Len(s)] = "," THEN RStripCommas(SubSeq(s, 1, Len(s) - 1)) ELSE s

StripCommas(s) == RStripCommas(LStripCommas(s))

FirstComma(s) ==
    IF \E i \in 1..Len(s) : s[i] = ","
    THEN CHOOSE i \in 1..Len(s) : s[i] = "," /\ \A j \in 1..(i - 1) : s[j] # ","
    ELSE 0

RECURSIVE SplitCommas(_)
SplitCommas(s) ==
    IF FirstComma(s) = 0
    THEN <<s>>
    ELSE <<SubSeq(s, 1, FirstComma(s) - 1)>>
             \o SplitCommas(SubSeq(s, FirstComma(s) + 1, Len(s)))


(* request.GET.get('username') is absent (None) or a string.  The list      *)
(* handler leaves a falsy value as it is and turns any other into a list.   *)
NoParam == [has |-> FALSE, val |-> <<>>]
Param(s) == [has |-> TRUE, val |-> s]
Params == {NoParam} \cup {Param(s) : s \in StringsUpTo(MaxLen)}

(* The queries the controller as a whole is run on. *)
SampleParams ==
    {NoParam, Param(<<>>), Param(<<"a">>), Param(<<"a", ",", "b">>),
     Param(<<"a", ",", ",", "b", ",">>), Param(<<"a", "b">>), Param(<<" ", "a">>)}

(* A split that keeps only the non-empty entries. *)
SplitDroppingEmpty(s) == SelectSeq(SplitCommas(StripCommas(s)), LAMBDA e : e # <<>>)

(* usernames.strip(',').split(',') *)
SplitUsernames(s) == SplitCommas(StripCommas(s))

ListUsernames(q) ==
    IF q.has /\ q.val # <<>>
    THEN [kind |-> "list", list |-> SplitUsernames(q.val)]
    ELSE IF q.has THEN [kind |-> "empty", list |-> <<>>]
    ELSE [kind |-> "none", list |-> <<>>]

----------------------------------------------------------------------------
(* The store.  One row per account: the auth user (email, password,         *)
(* is_active), its social-login linkages, its profile fields; and the       *)
(* account's org email-optin tags.  An email is the number of times the     *)
(* retired-email derivation has been applied to the original address.       *)

Callers == [username : Existing, is_staff : BOOLEAN]
Views == {"none", "shared"}

InitUser(u) ==
    [email |-> 0, password |-> "usable", is_active |-> TRUE,
     social |-> IF u = Alice THEN {"google"} ELSE {},
     goals |-> "v0", name |-> "v0"]

InitTags(u) ==
    [o \in Orgs |-> IF u = Bob THEN "absent" ELSE "True"]

InitDb == [users |-> [u \in Existing |-> InitUser(u)],
           tags |-> [u \in Existing |-> InitTags(u)]]

----------------------------------------------------------------------------
(* The collaborators the controller calls, by their contracts. *)

(* The field map get_account_settings returns for one account: every field  *)
(* to the owner and to staff, the shared subset otherwise and under         *)
(* view=shared.                                                             *)
Visible(store, caller, u, view) ==
    LET row == store.users[u]
        full == (caller.username = u \/ caller.is_staff) /\ view # "shared"
    IN  [username |-> u,
         name |-> row.name,
         is_active |-> row.is_active,
         email |-> IF full THEN row.email ELSE -1,
         goals |-> IF full THEN row.goals ELSE "hidden"]

RequestedNames(caller, usernames) ==
    IF usernames.kind = "list" THEN usernames.list ELSE <<caller.username>>

GetAccountSettingsRaises(caller, usernames) ==
    \E i \in 1..Len(RequestedNames(caller, usernames)) :
        RequestedNames(caller, usernames)[i] \notin Existing

GetAccountSettings(store, caller, usernames, view) ==
    [i \in 1..Len(RequestedNames(caller, usernames)) |->
        Visible(store, caller, RequestedNames(caller, usernames)[i], view)]

(* The patch documents: a value for each field of a subset of the fields. *)
Patches == UNION {[S -> FieldValues] : S \in SUBSET Fields}

(* What update_account_settings may do for a caller and a target. *)
UpdateOutcomes(caller, username, data) ==
    IF username \notin Existing
    THEN {"UserNotFound"} \cup
         (IF caller.username # username THEN {"UserNotAuthorized"} ELSE {})
    ELSE IF caller.username # username THEN {"UserNotAuthorized"}
    ELSE {"ok", "AccountUpdateError"} \cup
         (IF DOMAIN data # {} THEN {"AccountValidationError"} ELSE {})

(* The store with the fields `written` of the patch saved on the account. *)
ApplyPatch(store, username, data, written) ==
    [store EXCEPT !.users[username] =
        [k \in DOMAIN @ |-> IF k \in written THEN data[k] ELSE @[k]]]

(* get_potentially_retired_user_by_username_and_hash and objects.get *)
UserExists(username) == username \in Existing

(* get_retired_email_by_email: the placeholder derived from an address *)
GetRetiredEmailByEmail(email) == email + 1

(* update_email_opt_in(user, org, False) *)
UpdateEmailOptIn(store, username, org) ==
    [store EXCEPT !.tags[username][org] = "False"]

----------------------------------------------------------------------------
(* transaction.atomic(): the block's writes are committed when it exits     *)
(* normally and discarded when an exception leaves it.                      *)

TransactionAtomic(store, work, raised) == IF raised THEN store ELSE work

----------------------------------------------------------------------------
(* Requests and responses *)

EmptyBody == [kind |-> "empty", settings |-> <<>>]
Body(kind) == [kind |-> kind, settings |-> <<>>]
SettingsBody(kind, settings) == [kind |-> kind, settings |-> settings]

(* A request: its parameters, where the handler is (pc), the response       *)
(* (status, body) or the exception that left the handler (raised), and what *)
(* happened on the way: the exception an except clause caught, the          *)
(* statement that raised it, the collaborators called, the fields the       *)
(* update service saved.                                                    *)
Idle == [op |-> "idle", caller |-> [username |-> Alice, is_staff |-> FALSE],
         username |-> <<>>, pc |-> "done", status |-> NoResponse,
         body |-> EmptyBody, raised |-> "none", caught |-> "none",
         failed_at |-> "none", did |-> {}, written |-> {},
         todo |-> {}, user_email |-> 0]

Request(op, caller, username) ==
    [Idle EXCEPT !.op = op, !.caller = caller, !.username = username,
                 !.pc = "start"]

Did(r, call) == [r EXCEPT !.did = @ \cup {call}]

Respond(r, status, body) ==
    [r EXCEPT !.pc = "done", !.status = status, !.body = body, !.todo = {}]

(* An exception no except clause of the handler catches leaves the handler. *)
Escape(r, exc, at) ==
    [r EXCEPT !.pc = "done", !.status = NoResponse, !.raised = exc,
              !.failed_at = at, !.todo = {}]

Caught(r, exc, at) == [r EXCEPT !.caught = exc, !.failed_at = at]

Aux == <<query, resolved, calls, seen>>

----------------------------------------------------------------------------
(* AccountViewSet.list and AccountViewSet.retrieve *)

(* The status both read handlers give when the service raises UserNotFound. *)
UserNotFoundStatusAlways404(is_staff) == HTTP_404_NOT_FOUND

UserNotFoundStatus(is_staff) ==
    IF is_staff THEN HTTP_403_FORBIDDEN ELSE HTTP_404_NOT_FOUND

ListResponse(store, caller, q, view) ==
    LET r == Did(Request("list", caller, <<>>), "get_account_settings")
        usernames == ListUsernames(q)
    IN  IF GetAccountSettingsRaises(caller, usernames)
        THEN Respond(Caught(r, "UserNotFound", "get_account_settings"),
                     UserNotFoundStatus(caller.is_staff), EmptyBody)
        ELSE Respond(r, HTTP_200_OK,
                     SettingsBody("settings_list",
                                  GetAccountSettings(store, caller, usernames, view)))

RetrieveResponse(store, caller, username, view) ==
    LET r == Did(Request("retrieve", caller, username), "get_account_settings")
        usernames == [kind |-> "list", list |-> <<username>>]
    IN  IF GetAccountSettingsRaises(caller, usernames)
        THEN Respond(Caught(r, "UserNotFound", "get_account_settings"),
                     UserNotFoundStatus(caller.is_staff), EmptyBody)
        ELSE Respond(r, HTTP_200_OK,
                     SettingsBody("settings",
                                  <<GetAccountSettings(store, caller, usernames, view)[1]>>))

ListStep(caller, q, view) ==
    /\ req.pc = "done"
    /\ req' = ListResponse(db, caller, q, view)
    /\ before' = db
    /\ UNCHANGED <<db, tx>>

List(caller, q, view) == ListStep(caller, q, view) /\ UNCHANGED Aux

Retrieve(caller, username, view) ==
    /\ req.pc = "done"
    /\ req' = RetrieveResponse(db, caller, username, view)
    /\ before' = db
    /\ UNCHANGED <<db, tx, Aux>>

----------------------------------------------------------------------------
(* AccountViewSet.partial_update *)

PatchErrorStatusNotFoundMasked(exc, is_staff) ==
    CASE exc = "UserNotAuthorized" ->
            IF is_staff THEN HTTP_403_FORBIDDEN ELSE HTTP_404_NOT_FOUND
      [] exc = "UserNotFound" ->
            IF is_staff THEN HTTP_403_FORBIDDEN ELSE HTTP_404_NOT_FOUND
      [] exc = "AccountValidationError" -> HTTP_400_BAD_REQUEST
      [] exc = "AccountUpdateError" -> HTTP_400_BAD_REQUEST

(* The except clauses of partial_update *)
PatchErrorStatus(exc, is_staff) ==
    CASE exc = "UserNotAuthorized" ->
            IF is_staff THEN HTTP_403_FORBIDDEN ELSE HTTP_404_NOT_FOUND
      [] exc = "UserNotFound" -> HTTP_404_NOT_FOUND
      [] exc = "AccountValidationError" -> HTTP_400_BAD_REQUEST
      [] exc = "AccountUpdateError" -> HTTP_400_BAD_REQUEST

PatchErrorBody(exc) ==
    CASE exc = "AccountValidationError" -> Body("field_errors")
      [] exc = "AccountUpdateError" -> Body("developer_message,user_message")
      [] OTHER -> EmptyBody

(* The store after the atomic block of partial_update is left. *)
PatchKeepsWrites(store, work, raised) == work

PatchCommitted(store, work, raised) == TransactionAtomic(store, work, raised)

(* The fields update_account_settings may have saved when it ends in        *)
(* `outcome`: all of the patch when it returns, none when it rejects the    *)
(* caller or the target, any but all of them on a validation error.         *)
WrittenSets(data, outcome) ==
    CASE outcome = "ok" -> {DOMAIN data}
      [] outcome \in {"UserNotFound", "UserNotAuthorized"} -> {{}}
      [] outcome = "AccountValidationError" -> (SUBSET DOMAIN data) \ {DOMAIN data}
      [] outcome = "AccountUpdateError" -> SUBSET DOMAIN data

(* update_account_settings inside the atomic block: it saves some of the    *)
(* patch's fields and then returns or raises; an exception leaves the block *)
(* and reaches its except clause.                                           *)
PatchUpdate(caller, username, data, outcome, written) ==
    /\ req.pc = "done"
    /\ outcome \in UpdateOutcomes(caller, username, data)
    /\ written \in WrittenSets(data, outcome)
    /\ before' = db
    /\ LET r == [Did(Request("partial_update", caller, username),
                     "update_account_settings") EXCEPT !.written = written]
           work == IF written = {} THEN db ELSE ApplyPatch(db, username, data, written)
       IN  IF outcome = "ok"
           THEN /\ req' = [r EXCEPT !.pc = "reread"]
                /\ tx' = work
                /\ db' = db
           ELSE /\ req' = Respond(Caught(r, outcome, "update_account_settings"),
                                  PatchErrorStatus(outcome, caller.is_staff),
                                  PatchErrorBody(outcome))
                /\ db' = PatchCommitted(db, work, TRUE)
                /\ tx' = db'
    /\ UNCHANGED Aux

(* get_account_settings(request, [username])[0], still inside the block *)
PatchReread ==
    /\ req.op = "partial_update" /\ req.pc = "reread"
    /\ LET usernames == [kind |-> "list", list |-> <<req.username>>]
           r == Did(req, "get_account_settings")
       IN  IF GetAccountSettingsRaises(req.caller, usernames)
           THEN /\ req' = Respond(Caught(r, "UserNotFound", "get_account_settings"),
                                  PatchErrorStatus("UserNotFound", req.caller.is_staff),
                                  EmptyBody)
                /\ db' = PatchCommitted(db, tx, TRUE)
           ELSE /\ req' = Respond(r, HTTP_200_OK,
                                  SettingsBody("settings",
                                      <<GetAccountSettings(tx, req.caller, usernames, "none")[1]>>))
                /\ db' = PatchCommitted(db, tx, FALSE)
    /\ tx' = db'
    /\ UNCHANGED <<before, Aux>>

----------------------------------------------------------------------------
(* _set_unusable_password: user.set_unusable_password(); user.save() *)

KeepPassword(store, username) == store

SetUnusablePassword(store, username) ==
    [store EXCEPT !.users[username].password = "unusable"]

----------------------------------------------------------------------------
(* AccountDeactivationView.post: no transaction, no except clause *)

(* _set_unusable_password(User.objects.get(username=username)) *)
DeactivateSetPassword(caller, username) ==
    /\ req.pc = "done"
    /\ before' = db
    /\ LET r == Did(Request("deactivate", caller, username), "objects.get")
       IN  IF ~UserExists(username)
           THEN /\ req' = Escape(r, "DoesNotExist", "objects.get")
                /\ db' = db
           ELSE /\ req' = [r EXCEPT !.pc = "read"]
                /\ db' = SetUnusablePassword(db, username)
    /\ tx' = db'

(* Response(get_account_settings(request, [username])[0]) *)
DeactivateRead ==
    /\ req.op = "deactivate" /\ req.pc = "read"
    /\ LET usernames == [kind |-> "list", list |-> <<req.username>>]
           r == Did(req, "get_account_settings")
       IN  req' = IF GetAccountSettingsRaises(req.caller, usernames)
                  THEN Escape(r, "UserNotFound", "get_account_settings")
                  ELSE Respond(r, HTTP_200_OK,
                               SettingsBody("settings",
                                   <<GetAccountSettings(db, req.caller, usernames, "none")[1]>>))
    /\ UNCHANGED <<db, tx, before>>

Deactivate(caller, username) ==
    DeactivateSetPassword(caller, username) /\ UNCHANGED Aux

DeactivateRespond == DeactivateRead /\ UNCHANGED Aux

----------------------------------------------------------------------------
(* AccountRetireMailingsView.post *)

(* The store after the atomic block of retire_mailings is left. *)
RetireKeepsWrites(store, work, raised) == work

RetireCommitted(store, work, raised) == TransactionAtomic(store, work, raised)

(* The except clauses of the two retirement endpoints: the lookup's         *)
(* DoesNotExist first, then every other exception.                          *)
RetirementExceptStatus(exc) ==
    IF exc = "DoesNotExist" THEN HTTP_404_NOT_FOUND
    ELSE HTTP_500_INTERNAL_SERVER_ERROR

RetirementExceptBody(exc) ==
    IF exc = "DoesNotExist" THEN EmptyBody ELSE Body("text")

(* The classes of the exceptions the calls inside the atomic blocks raise:  *)
(* database and receiver errors, none of them user_model.DoesNotExist.      *)
BlockExceptions == {"Exception"}

(* A call inside an atomic block returns ("none") or raises. *)
Outcomes == {"none"} \cup BlockExceptions

(* request.data['retired_username'], then the user lookup *)
RetireLookup(caller, username, has_retired_username) ==
    /\ req.pc = "done"
    /\ before' = db
    /\ LET r == Request("retire_mailings", caller, username)
           looked == Did(r, "get_potentially_retired_user")
       IN  req' = IF ~has_retired_username
                  THEN Escape(r, "KeyError", "request.data")
                  ELSE IF ~UserExists(username)
                  THEN Respond(Caught(looked, "DoesNotExist", "get_potentially_retired_user"),
                               RetirementExceptStatus("DoesNotExist"),
                               RetirementExceptBody("DoesNotExist"))
                  ELSE [looked EXCEPT !.pc = "optout",
                            !.todo = {o \in Orgs : db.tags[username][o] # "absent"}]
    /\ UNCHANGED <<db, tx, Aux>>

(* One turn of the loop: update_email_opt_in(user, preference.org, False) *)
RetireOptOut(org, exc) ==
    /\ req.op = "retire_mailings" /\ req.pc = "optout"
    /\ org \in req.todo
    /\ LET r == Did(req, "update_email_opt_in")
       IN  IF exc # "none"
           THEN /\ req' = Respond(Caught(r, exc, "update_email_opt_in"),
                                  RetirementExceptStatus(exc), RetirementExceptBody(exc))
                /\ db' = RetireCommitted(db, tx, TRUE)
                /\ tx' = db'
           ELSE /\ req' = [r EXCEPT !.todo = @ \ {org}]
                /\ tx' = UpdateEmailOptIn(tx, req.username, org)
                /\ db' = db
    /\ UNCHANGED <<before, Aux>>

(* USER_RETIRE_MAILINGS.send(...), then the end of the atomic block *)
RetireSignal(exc) ==
    /\ req.op = "retire_mailings" /\ req.pc = "optout"
    /\ req.todo = {}
    /\ LET r == Did(req, "USER_RETIRE_MAILINGS.send")
       IN  req' = IF exc # "none"
                  THEN Respond(Caught(r, exc, "USER_RETIRE_MAILINGS.send"),
                               RetirementExceptStatus(exc), RetirementExceptBody(exc))
                  ELSE Respond(r, HTTP_204_NO_CONTENT, EmptyBody)
    /\ db' = RetireCommitted(db, tx, exc # "none")
    /\ tx' = db'
    /\ UNCHANGED <<before, Aux>>

----------------------------------------------------------------------------
(* DeactivateLogoutView.post *)

(* request.data.get('user', None) *)
BodyUsers == {NoParam, Param(<<>>)} \cup {Param(u) : u \in Targets}

NotUsernameNoneOnly(b) == ~b.has

(* `not username` *)
NotUsername(b) == ~b.has \/ b.val = <<>>

(* The store after the atomic block of deactivate_logout is left. *)
DeactivateLogoutKeepsWrites(store, work, raised) == work

DeactivateLogoutCommitted(store, work, raised) == TransactionAtomic(store, work, raised)

(* The guard on the user field, then user_model.objects.get *)
DeactivateLogoutLookup(caller, b) ==
    /\ req.pc = "done"
    /\ b.has /\ b.val \in Existing => db.users[b.val].email < MaxRetire
    /\ before' = db
    /\ LET r == Request("deactivate_logout", caller, b.val)
           looked == Did(r, "objects.get")
       IN  req' = IF NotUsername(b)
                  THEN Respond(r, HTTP_404_NOT_FOUND, Body("message"))
                  ELSE IF ~UserExists(b.val)
                  THEN Respond(Caught(looked, "DoesNotExist", "objects.get"),
                               RetirementExceptStatus("DoesNotExist"),
                               RetirementExceptBody("DoesNotExist"))
                  ELSE [looked EXCEPT !.pc = "unlink",
                                      !.user_email = db.users[b.val].email]
    /\ UNCHANGED <<db, tx, Aux>>

(* An exception inside the atomic block: the block is left, the except      *)
(* clauses answer.                                                          *)
DeactivateLogoutFail(exc, at) ==
    /\ req' = Respond(Caught(Did(req, at), exc, at),
                      RetirementExceptStatus(exc), RetirementExceptBody(exc))
    /\ db' = DeactivateLogoutCommitted(db, tx, TRUE)
    /\ tx' = db'

(* 1. UserSocialAuth.objects.filter(user_id=user.id).delete() *)
DeactivateLogoutUnlink(exc) ==
    /\ req.op = "deactivate_logout" /\ req.pc = "unlink"
    /\ IF exc # "none"
       THEN DeactivateLogoutFail(exc, "UserSocialAuth.delete")
       ELSE /\ req' = [Did(req, "UserSocialAuth.delete") EXCEPT !.pc = "email"]
            /\ tx' = [tx EXCEPT !.users[req.username].social = {}]
            /\ db' = db
    /\ UNCHANGED <<before, Aux>>

(* 2. user.email = get_retired_email_by_email(user.email); user.save() *)
DeactivateLogoutRetireEmail(exc) ==
    /\ req.op = "deactivate_logout" /\ req.pc = "email"
    /\ IF exc # "none"
       THEN DeactivateLogoutFail(exc, "user.save")
       ELSE /\ req' = [Did(req, "user.save") EXCEPT
                          !.pc = "password",
                          !.user_email = GetRetiredEmailByEmail(@)]
            /\ tx' = [tx EXCEPT !.users[req.username].email =
                                    GetRetiredEmailByEmail(req.user_email)]
            /\ db' = db
    /\ UNCHANGED <<before, Aux>>

(* _set_unusable_password(user), then the end of the atomic block *)
DeactivateLogoutSetPassword(exc) ==
    /\ req.op = "deactivate_logout" /\ req.pc = "password"
    /\ IF exc # "none"
       THEN DeactivateLogoutFail(exc, "_set_unusable_password")
       ELSE /\ req' = Respond(Did(req, "_set_unusable_password"),
                              HTTP_204_NO_CONTENT, EmptyBody)
            /\ db' = DeactivateLogoutCommitted(
                         db, SetUnusablePassword(tx, req.username), FALSE)
            /\ tx' = db'
    /\ UNCHANGED <<before, Aux>>

----------------------------------------------------------------------------
(* The controller *)

Unresolved == [kind |-> "unset", list |-> <<>>]

Init ==
    /\ db = InitDb
    /\ tx = InitDb
    /\ req = Idle
    /\ before = InitDb
    /\ query = NoParam
    /\ resolved = Unresolved
    /\ calls = <<>>
    /\ seen = {}

Next ==
    \/ \E c \in Callers, q \in SampleParams, v \in Views : List(c, q, v)
    \/ \E c \in Callers, u \in Usernames, v \in Views : Retrieve(c, u, v)
    \/ \E c \in Callers, u \in Targets, d \in Patches :
          \E o \in UpdateOutcomes(c, u, d) :
             \E w \in WrittenSets(d, o) : PatchUpdate(c, u, d, o, w)
    \/ PatchReread
    \/ \E c \in Callers, u \in Targets : Deactivate(c, u)
    \/ DeactivateRespond
    \/ \E c \in Callers, u \in Targets, h \in BOOLEAN : RetireLookup(c, u, h)
    \/ \E o \in Orgs, x \in Outcomes : RetireOptOut(o, x)
    \/ \E x \in Outcomes : RetireSignal(x)
    \/ \E c \in Callers, b \in BodyUsers : DeactivateLogoutLookup(c, b)
    \/ \E x \in Outcomes : DeactivateLogoutUnlink(x)
    \/ \E x \in Outcomes : DeactivateLogoutRetireEmail(x)
    \/ \E x \in Outcomes : DeactivateLogoutSetPassword(x)

Spec == Init /\ [][Next]_vars

----------------------------------------------------------------------------
(* The list handler on every query string up to MaxLen, one request each,   *)
(* with the usernames it hands to the settings service recorded.            *)

InitList ==
    /\ db = InitDb
    /\ tx = InitDb
    /\ req = Idle
    /\ before = InitDb
    /\ query \in Params
    /\ resolved = Unresolved
    /\ calls = <<>>
    /\ seen = {}

ListResolve(caller, view) ==
    /\ req.op = "idle"
    /\ ListStep(caller, query, view)
    /\ resolved' = ListUsernames(query)
    /\ UNCHANGED <<query, calls, seen>>

NextList == \E c \in Callers, v \in Views : ListResolve(c, v)

SpecList == InitList /\ [][NextList]_vars

----------------------------------------------------------------------------
(* Administrative deactivation called twice in a row on one account, from   *)
(* every state an account can be in.                                        *)

AccountRows ==
    {[email |-> e, password |-> p, is_active |-> TRUE, social |-> s,
      goals |-> g, name |-> n] :
        e \in 0..MaxRetire, p \in {"usable", "unusable"},
        s \in {{}, {"google"}}, g \in FieldValues, n \in FieldValues}

(* A retired account has no linkage and no usable password. *)
LiveRows == {r \in AccountRows : r.email > 0 => r.password = "unusable" /\ r.social = {}}

InitTwice ==
    /\ \E row \in LiveRows : db = [InitDb EXCEPT !.users[Alice] = row]
    /\ tx = db
    /\ req = Idle
    /\ before = db
    /\ query = NoParam
    /\ resolved = Unresolved
    /\ calls = <<>>
    /\ seen = {}

Completed(r, store) ==
    [caller |-> r.caller, username |-> r.username, status |-> r.status,
     raised |-> r.raised, body |-> r.body, store |-> store]

DeactivateCall(caller, username) ==
    /\ Len(calls) < 2
    /\ calls # <<>> => caller = calls[1].caller /\ username = calls[1].username
    /\ DeactivateSetPassword(caller, username)
    /\ calls' = IF req'.pc = "done" THEN Append(calls, Completed(req', db')) ELSE calls
    /\ UNCHANGED <<query, resolved, seen>>

DeactivateReturn ==
    /\ DeactivateRead
    /\ calls' = Append(calls, Completed(req', db'))
    /\ UNCHANGED <<query, resolved, seen>>

NextTwice ==
    \/ \E c \in Callers, u \in Targets : DeactivateCall(c, u)
    \/ DeactivateReturn

SpecTwice == InitTwice /\ [][NextTwice]_vars

----------------------------------------------------------------------------
(* One deactivate_logout request on an account in any state, with readers   *)
(* of the committed store running beside it.                                *)

InitObserved ==
    /\ \E row \in LiveRows :
          /\ row.email < MaxRetire
          /\ db = [InitDb EXCEPT !.users[Alice] = row]
    /\ tx = db
    /\ req = Idle
    /\ before = db
    /\ query = NoParam
    /\ resolved = Unresolved
    /\ calls = <<>>
    /\ seen = {}

LogoutOnce(caller, b) == req.op = "idle" /\ DeactivateLogoutLookup(caller, b)

(* Another request reads the account's rows: it sees what is committed. *)
Observe(username) ==
    /\ seen' = seen \cup {db.users[username]}
    /\ UNCHANGED <<db, tx, req, before, query, resolved, calls>>

NextObserved ==
    \/ \E c \in Callers, b \in BodyUsers : LogoutOnce(c, b)
    \/ \E x \in Outcomes : DeactivateLogoutUnlink(x)
    \/ \E x \in Outcomes : DeactivateLogoutRetireEmail(x)
    \/ \E x \in Outcomes : DeactivateLogoutSetPassword(x)
    \/ Observe(Alice)

SpecObserved == InitObserved /\ [][NextObserved]_vars

----------------------------------------------------------------------------
(* Properties *)

Finished(op) == req.op = op /\ req.pc = "done"

C2_PatchStatusMapping ==
    Finished("partial_update") =>
        /\ req.raised = "none"
        /\ req.caught = "UserNotAuthorized" =>
              req.status = IF req.caller.is_staff THEN HTTP_403_FORBIDDEN
                                                   ELSE HTTP_404_NOT_FOUND
        /\ req.caught = "UserNotFound" => req.status = HTTP_404_NOT_FOUND
        /\ req.caught = "AccountValidationError" =>
              req.status = HTTP_400_BAD_REQUEST /\ req.body.kind = "field_errors"
        /\ req.caught = "AccountUpdateError" =>
              /\ req.status = HTTP_400_BAD_REQUEST
              /\ req.body.kind = "developer_message,user_message"
        /\ req.status = HTTP_200_OK <=> req.caught = "none"
        /\ req.status = HTTP_200_OK =>
              /\ req.did = {"update_account_settings", "get_account_settings"}
              /\ req.body = SettingsBody("settings",
                                <<Visible(db, req.caller, req.username, "none")>>)

C2_Witness ==
    /\ Finished("partial_update")
    /\ req.caught = "UserNotFound"
    /\ req.caller.is_staff
    /\ req.status = HTTP_404_NOT_FOUND

(* C3: a PATCH that ends in AccountValidationError is answered 400 and      *)
(* leaves the store as it was when the request arrived, whatever the update *)
(* service had saved before raising; a GET that follows shows the account   *)
(* as before the patch.                                                     *)
C3_ValidationFailureMutatesNothing ==
    (Finished("partial_update") /\ req.caught = "AccountValidationError") =>
        /\ req.status = HTTP_400_BAD_REQUEST
        /\ db = before
        /\ \A c \in Callers, v \in Views :
              RetrieveResponse(db, c, req.username, v)
                  = RetrieveResponse(before, c, req.username, v)

C3_Witness ==
    /\ Finished("partial_update")
    /\ req.caught = "AccountValidationError"
    /\ req.written # {}
    /\ db = before

Retired(store, u) ==
    [store EXCEPT !.users[u] =
        [store.users[u] EXCEPT !.social = {},
                               !.email = GetRetiredEmailByEmail(store.users[u].email),
                               !.password = "unusable"]]

RECURSIVE TrimLeft(_)
TrimLeft(e) == IF e # <<>> /\ Head(e) = " " THEN TrimLeft(Tail(e)) ELSE e

RECURSIVE TrimRight(_)
TrimRight(e) ==
    IF e # <<>> /\ e[Len(e)] = " " THEN TrimRight(SubSeq(e, 1, Len(e) - 1)) ELSE e

TrimmedNonEmptyEntries(s) ==
    SelectSeq([i \in 1..Len(SplitCommas(s)) |-> TrimRight(TrimLeft(SplitCommas(s)[i]))],
              LAMBDA e : e # <<>>)

C7_EmptyDroppedAndTrimmed ==
    resolved.kind = "list" => resolved.list = TrimmedNonEmptyEntries(query.val)

(* C7, amended: the list handler removes the leading and the trailing       *)
(* commas of a non-empty username parameter and splits the rest at every    *)
(* comma, in input order: the entries hold no comma and, joined by commas,  *)
(* give back the parameter without its leading and trailing commas.  Empty  *)
(* entries between two commas are kept and no entry is trimmed.             *)
RECURSIVE JoinCommas(_)
JoinCommas(list) ==
    IF Len(list) = 1 THEN list[1]
    ELSE list[1] \o <<",">> \o JoinCommas(Tail(list))

Commas(s, from, to) == \A p \in from..to : s[p] = ","

C7_StripsOuterCommasThenSplits ==
    /\ resolved.kind = "list" <=> (req.op = "list" /\ query.has /\ query.val # <<>>)
    /\ resolved.kind = "list" =>
          LET v == query.val
              j == JoinCommas(resolved.list)
          IN  /\ Len(resolved.list) >= 1
              /\ \A i \in 1..Len(resolved.list) :
                    \A p \in 1..Len(resolved.list[i]) : resolved.list[i][p] # ","
              /\ j # <<>> => j[1] # "," /\ j[Len(j)] # ","
              /\ \E lead \in 0..Len(v) :
                    /\ lead + Len(j) <= Len(v)
                    /\ Commas(v, 1, lead)
                    /\ SubSeq(v, lead + 1, lead + Len(j)) = j
                    /\ Commas(v, lead + Len(j) + 1, Len(v))

C7_Witness ==
    /\ query = Param(<<"a", ",", ",", "b", ",">>)
    /\ resolved = [kind |-> "list", list |-> <<Alice, <<>>, Bob>>]

(* C8, as claimed: list, retrieve, partial_update and administrative        *)
(* deactivation end every request in a response with a status; no exception *)
(* leaves the handler, also when the username names no account.             *)
C8_NoExceptionLeavesHandler ==
    (req.pc = "done" /\ req.op \in {"list", "retrieve", "partial_update", "deactivate"}) =>
        /\ req.raised = "none"
        /\ req.status \in {HTTP_200_OK, HTTP_400_BAD_REQUEST,
                           HTTP_403_FORBIDDEN, HTTP_404_NOT_FOUND}

(* C9, as claimed: retire_mailings and deactivate_logout answer every       *)
(* request body, one without retired_username included, with 204, 404 or    *)
(* 500 and never raise.                                                     *)
C9_RetirementEndpointsNeverRaise ==
    (req.pc = "done" /\ req.op \in {"retire_mailings", "deactivate_logout"}) =>
        /\ req.raised = "none"
        /\ req.status \in {HTTP_204_NO_CONTENT, HTTP_404_NOT_FOUND,
                           HTTP_500_INTERNAL_SERVER_ERROR}

(* C10: deactivate_logout with the user field missing or empty answers 404  *)
(* with a message, never 500; it looks no account up and changes nothing.   *)
C10_MissingUserIs404 ==
    (Finished("deactivate_logout") /\ req.username = <<>>) =>
        /\ req.status = HTTP_404_NOT_FOUND
        /\ req.body.kind = "message"
        /\ req.raised = "none"
        /\ req.did = {}
        /\ db = before

C10_Witness ==
    /\ Finished("deactivate_logout")
    /\ req.username = <<>>
    /\ req.status = HTTP_404_NOT_FOUND
    /\ req.body.kind = "message"

====
